---- MODULE Spec2Model ----
(***************************************************************************)
(* A model of TLGenerator (src/TLGenerator/tl_generator.py): the grouping  *)
(* of parsed TL definitions, the layer/namespace sequencing of the emitted *)
(* source, the class emitted for one definition, and the behaviour of the  *)
(* emitted write and read methods on a stream of items.                    *)
(*                                                                         *)
(* Names (definition names, result names) are modelled by their rank in    *)
(* lexicographic order, so that < on ranks is string comparison.           *)
(***************************************************************************)
EXTENDS Integers, Sequences, FiniteSets, TLC

\* ------------------------------------------------------------------ bounds
MaxObjects == 2
MaxArgs == 3
MaxVecLen == 3

\* ---------------------------------------------------------------- constants
\* 0x1cb5c415, the boxed-vector tag written by the emitted write
VECTOR_ID == 481674261

Files == {"functions.cpp", "types.cpp"}
Layers == {1, 71}
Namespaces == {"", "auth"}
Names == {1, 2}
Ids == {1, 2}
ScalarValues == {1, 2}

\* The loop variable ns after "ns = None"
NoneNs == "None"

\* ------------------------------------------------------------ the parser's output
\* A result as the parser delivers it: a family name, possibly inside a
\* generic/container wrapper (Vector<Family>).
RawResults == {[wrapped |-> FALSE, family |-> 1],
               [wrapped |-> TRUE,  family |-> 1],
               [wrapped |-> FALSE, family |-> 2]}

\* TLArg.get_sanitized_result: a wrapped result collapses to the family of
\* the element it contains; the value is the name of the family.
get_sanitized_result(r) == r.family

ArgShapes ==
    { [is_flag |-> FALSE, flag_indicator |-> FALSE, generic_definition |-> FALSE,
       is_vector |-> FALSE, use_vector_id |-> FALSE],
      [is_flag |-> TRUE,  flag_indicator |-> FALSE, generic_definition |-> FALSE,
       is_vector |-> FALSE, use_vector_id |-> FALSE],
      [is_flag |-> FALSE, flag_indicator |-> FALSE, generic_definition |-> FALSE,
       is_vector |-> TRUE,  use_vector_id |-> FALSE],
      [is_flag |-> FALSE, flag_indicator |-> FALSE, generic_definition |-> FALSE,
       is_vector |-> TRUE,  use_vector_id |-> TRUE],
      [is_flag |-> TRUE,  flag_indicator |-> FALSE, generic_definition |-> FALSE,
       is_vector |-> TRUE,  use_vector_id |-> TRUE],
      [is_flag |-> FALSE, flag_indicator |-> TRUE,  generic_definition |-> FALSE,
       is_vector |-> FALSE, use_vector_id |-> FALSE],
      [is_flag |-> FALSE, flag_indicator |-> FALSE, generic_definition |-> TRUE,
       is_vector |-> FALSE, use_vector_id |-> FALSE] }

\* An argument: its shape and its name (its position in the definition).
TLArg(shape, n) ==
    [name |-> n, is_flag |-> shape.is_flag, flag_indicator |-> shape.flag_indicator,
     generic_definition |-> shape.generic_definition,
     is_vector |-> shape.is_vector, use_vector_id |-> shape.use_vector_id]

\* The parser's invariant on one definition: at most one flag indicator,
\* and it precedes every flagged argument.
WellFormedArgs(args) ==
    /\ Cardinality({i \in 1..Len(args) : args[i].flag_indicator}) <= 1
    /\ \A j \in 1..Len(args) :
          args[j].is_flag => \E i \in 1..(j - 1) : args[i].flag_indicator

ArgLists ==
    { args \in UNION { { [i \in 1..k |-> TLArg(sh[i], i)] : sh \in [1..k -> ArgShapes] }
                       : k \in 0..MaxArgs } : WellFormedArgs(args) }

\* ------------------------------------------------------------ sequences
RECURSIVE SelectSeqBy(_, _)
\* the stable partition used by sorted(): elements with key = b, in order
SelectSeqBy(s, b) ==
    IF s = <<>> THEN <<>>
    ELSE IF Head(s).is_flag = b THEN <<Head(s)>> \o SelectSeqBy(Tail(s), b)
         ELSE SelectSeqBy(Tail(s), b)

\* TLObject.sorted_args: the arguments, stably sorted so that every flagged
\* argument comes after every non-flagged one.
sorted_args(t) == SelectSeqBy(t.args, FALSE) \o SelectSeqBy(t.args, TRUE)

RECURSIVE InsertByName(_, _)
\* insertion behind every element whose name is <= the new one (stable)
InsertByName(s, t) ==
    IF s = <<>> THEN <<t>>
    ELSE IF Head(s).name <= t.name THEN <<Head(s)>> \o InsertByName(Tail(s), t)
         ELSE <<t>> \o s

RECURSIVE SortedByName(_)
\* sorted(tlobjects, key=lambda x: x.name), a stable sort
SortedByName(s) ==
    IF s = <<>> THEN <<>>
    ELSE InsertByName(SortedByName(SubSeq(s, 1, Len(s) - 1)), s[Len(s)])

RECURSIVE SortedSet(_)
\* sorted(abstracts): the elements of a set in ascending order
SortedSet(S) ==
    IF S = {} THEN <<>>
    ELSE LET m == CHOOSE x \in S : \A y \in S : x <= y
         IN <<m>> \o SortedSet(S \ {m})

\* ------------------------------------------------------------ SourceBuilder
\* What the builder receives, in order: a writeln of a line that ends in "{"
\* opens a block, end_block closes the innermost open block, any other
\* writeln is a plain line.  n, m, s and p carry what the line names.
Tok(t, kind, n, m, s, p) == [t |-> t, kind |-> kind, n |-> n, m |-> m, s |-> s, p |-> p]
Open(kind, n, m) == Tok("open", kind, n, m, "", <<>>)
Line(kind, n) == Tok("line", kind, n, 0, "", <<>>)
end_block == Tok("close", "}", 0, 0, "", <<>>)
Blank == Line("", 0)

RECURSIVE Flatten(_)
Flatten(ss) == IF ss = <<>> THEN <<>> ELSE Head(ss) \o Flatten(Tail(ss))

\* ------------------------------------------------------------ _write_source_code
\* args = [a for a in tlobject.sorted_args()
\*         if not a.flag_indicator and not a.generic_definition]
RECURSIVE KeepFields(_)
KeepFields(s) ==
    IF s = <<>> THEN <<>>
    ELSE IF ~Head(s).flag_indicator /\ ~Head(s).generic_definition
         THEN <<Head(s)>> \o KeepFields(Tail(s))
         ELSE KeepFields(Tail(s))

\* a variant that filters the arguments in their loaded order
FieldArgsUnsorted(t) == KeepFields(t.args)

FieldArgs(t) == KeepFields(sorted_args(t))

\* the field declarations, one per argument
FieldLines(args) == [i \in 1..Len(args) |-> Line("field", args[i].name)]

\* params: a flagged argument's parameter carries the default "= {}"
CtorParams(args) ==
    [i \in 1..Len(args) |-> [name |-> args[i].name, defaulted |-> args[i].is_flag]]

\* this->name = name;
AssignLines(args) == [i \in 1..Len(args) |-> Line("assign", args[i].name)]

\* a variant that writes the boxed-vector tag for every vector
WriteArgAlwaysBoxed(arg) ==
    IF arg.is_vector
    THEN <<Line("put_vecid", VECTOR_ID),
           Line("put_size", arg.name),
           Open("for_write", arg.name, 0),
           Line("put_x", 0),
           end_block>>
    ELSE <<Line("put", arg.name)>>

\* the statements write emits for one argument
WriteArg(arg) ==
    IF arg.is_vector
    THEN (IF arg.use_vector_id THEN <<Line("put_vecid", VECTOR_ID)>> ELSE <<>>)
         \o <<Line("put_size", arg.name),
              Open("for_write", arg.name, 0),
              Line("put_x", 0),
              end_block>>
    ELSE <<Line("put", arg.name)>>

\* void write(Stream &stream) override { ... }
WriteMethod(t, args) ==
    <<Open("write", 0, 0), Line("put_ctor", 0)>>
    \o Flatten([i \in 1..Len(args) |-> WriteArg(args[i])])
    \o <<end_block>>

\* the statements read emits for one argument; the loop's condition tests
\* "i", its counter is "_i", and its body reads nothing
ReadArg(arg) ==
    IF arg.is_vector
    THEN (IF arg.use_vector_id THEN <<Line("get_i", 0)>> ELSE <<>>)
         \o <<Line("get_len", 0),
              Open("for_read", arg.name, 0),
              Line("todo", 0),
              end_block>>
    ELSE <<Line("get", arg.name)>>

\* a variant that reads the fields in the opposite order
ReadMethodReversed(args) ==
    <<Open("read", 0, 0)>>
    \o (IF \E i \in 1..Len(args) : args[i].is_vector
        THEN <<Line("decl_len_i", 0)>> ELSE <<>>)
    \o Flatten([i \in 1..Len(args) |-> ReadArg(args[Len(args) + 1 - i])])
    \o <<end_block>>

\* void read(Stream &stream) override { ... }
ReadMethod(args) ==
    <<Open("read", 0, 0)>>
    \o (IF \E i \in 1..Len(args) : args[i].is_vector
        THEN <<Line("decl_len_i", 0)>> ELSE <<>>)
    \o Flatten([i \in 1..Len(args) |-> ReadArg(args[i])])
    \o <<end_block>>

\* Everything _write_source_code hands to the builder for one definition.
\* (current_indent -= 1 / += 1 around "public:" only moves the indentation.)
WriteSourceCode(t) ==
    LET args == FieldArgs(t) IN
    <<Open("class", t.result, t.name),
      Line("public:", 0),
      Line("CONSTRUCTOR", t.id),
      Blank>>
    \o FieldLines(args)
    \o <<Blank, Tok("open", "ctor", 0, t.name, "", CtorParams(args))>>
    \o AssignLines(args)
    \o <<end_block>>
    \o WriteMethod(t, args)
    \o ReadMethod(args)
    \o <<end_block>>

\* ------------------------------------------------------------ reading the output
RECURSIVE DepthAt(_, _)
\* the number of blocks open after the first k tokens (negative once a
\* block was closed that was never opened)
DepthAt(toks, k) ==
    IF k = 0 THEN 0
    ELSE DepthAt(toks, k - 1)
         + (IF toks[k].t = "open" THEN 1 ELSE IF toks[k].t = "close" THEN -1 ELSE 0)

RECURSIVE StackAt(_, _)
\* the kinds of the blocks open after the first k tokens, innermost last
StackAt(toks, k) ==
    IF k = 0 THEN <<>>
    ELSE LET st == StackAt(toks, k - 1) IN
         IF toks[k].t = "open" THEN Append(st, toks[k].kind)
         ELSE IF toks[k].t = "close"
              THEN (IF st = <<>> THEN <<>> ELSE SubSeq(st, 1, Len(st) - 1))
              ELSE st

\* the positions of the tokens of one kind
Positions(toks, t, kind) == {k \in 1..Len(toks) : toks[k].t = t /\ toks[k].kind = kind}

RECURSIVE Pick(_, _, _)
\* the tokens of one kind, in order
Pick(toks, t, kind) ==
    IF toks = <<>> THEN <<>>
    ELSE IF Head(toks).t = t /\ Head(toks).kind = kind
         THEN <<Head(toks)>> \o Pick(Tail(toks), t, kind)
         ELSE Pick(Tail(toks), t, kind)

RECURSIVE BlockEnd(_, _, _)
\* the position of the end_block that closes a block, scanning from k with
\* d blocks of its inside still open
BlockEnd(toks, k, d) ==
    IF toks[k].t = "close"
    THEN (IF d = 0 THEN k ELSE BlockEnd(toks, k + 1, d - 1))
    ELSE BlockEnd(toks, k + 1, IF toks[k].t = "open" THEN d + 1 ELSE d)

\* the body of the method `kind` of an emitted class: the tokens between
\* its opening line and the end_block that closes it
MethodBody(toks, kind) ==
    LET a == CHOOSE k \in 1..Len(toks) : toks[k].t = "open" /\ toks[k].kind = kind
    IN SubSeq(toks, a + 1, BlockEnd(toks, a + 1, 0) - 1)

\* ------------------------------------------------------------ the emitted methods at run time
\* A Stream is the sequence of items written so far; "<<" appends one item
\* and ">>" takes the item at the read position and moves past it.
\* A value of a class maps each argument name to a scalar or, for a vector
\* field, to the sequence of its elements.

\* the first end_block after position k: the end of a loop that starts at k
LoopEnd(stmts, k) == CHOOSE j \in (k + 1)..Len(stmts) :
                        /\ stmts[j].t = "close"
                        /\ \A i \in (k + 1)..(j - 1) : stmts[i].t # "close"

RECURSIVE ExecWriteBody(_, _)
\* one pass of "for (auto const& _x: name) { stream << _x; }" with _x = e
ExecWriteBody(body, e) ==
    IF body = <<>> THEN <<>>
    ELSE (IF Head(body).kind = "put_x" THEN <<e>> ELSE <<>>)
         \o ExecWriteBody(Tail(body), e)

RECURSIVE ExecWrite(_, _, _, _, _)
\* the emitted write from statement k on: the stream it leaves
ExecWrite(stmts, k, v, ctor, s) ==
    IF k > Len(stmts) THEN s
    ELSE LET st == stmts[k] IN
         CASE st.kind = "put_ctor"  -> ExecWrite(stmts, k + 1, v, ctor, Append(s, ctor))
           [] st.kind = "put_vecid" -> ExecWrite(stmts, k + 1, v, ctor, Append(s, st.n))
           [] st.kind = "put_size"  -> ExecWrite(stmts, k + 1, v, ctor, Append(s, Len(v[st.n])))
           [] st.kind = "put"       -> ExecWrite(stmts, k + 1, v, ctor, Append(s, v[st.n]))
           [] st.kind = "for_write" ->
                LET j == LoopEnd(stmts, k)
                    body == SubSeq(stmts, k + 1, j - 1)
                    elems == v[st.n]
                IN ExecWrite(stmts, j + 1, v, ctor,
                             s \o Flatten([i \in 1..Len(elems) |-> ExecWriteBody(body, elems[i])]))
           [] OTHER -> ExecWrite(stmts, k + 1, v, ctor, s)

RECURSIVE ExecRead(_, _, _, _, _)
\* the emitted read from statement k on.  r: the read position pos, the
\* object's fields, the locals _len and _i, and status.  The loop
\* "for (_i = 0; i != _len; ++_i) { /* TODO */ }" reads nothing; its
\* condition names "i", which read does not declare, so whether it is ever
\* left is not decided by read: exits says which.
ExecRead(stmts, k, r, s, exits) ==
    IF k > Len(stmts) THEN r
    ELSE LET st == stmts[k] IN
         CASE st.kind = "get_i"   ->
                ExecRead(stmts, k + 1, [r EXCEPT !.i = s[r.pos], !.pos = r.pos + 1], s, exits)
           [] st.kind = "get_len" ->
                ExecRead(stmts, k + 1, [r EXCEPT !.len = s[r.pos], !.pos = r.pos + 1], s, exits)
           [] st.kind = "get"     ->
                ExecRead(stmts, k + 1,
                         [r EXCEPT !.fields[st.n] = s[r.pos], !.pos = r.pos + 1], s, exits)
           [] st.kind = "for_read" ->
                IF exits
                THEN ExecRead(stmts, LoopEnd(stmts, k) + 1, [r EXCEPT !.i = 0], s, exits)
                ELSE [r EXCEPT !.i = 0, !.status = "hung"]
           [] OTHER -> ExecRead(stmts, k + 1, r, s, exits)

\* the values a field can hold: a vector of n elements holds the distinct
\* elements 10*name + 1 .. 10*name + n
ValuesOf(arg) ==
    IF arg.flag_indicator \/ arg.generic_definition THEN {0}
    ELSE IF arg.is_vector
         THEN { [k \in 1..n |-> 10 * arg.name + k] : n \in 0..MaxVecLen }
         ELSE ScalarValues

RECURSIVE ValuesFor(_)
\* the values of a definition: one value per argument
ValuesFor(args) ==
    IF args = <<>> THEN {<<>>}
    ELSE { <<h>> \o rest : h \in ValuesOf(Head(args)), rest \in ValuesFor(Tail(args)) }

\* the object read is called on: no field holds anything yet
BlankObject(args) == [i \in 1..Len(args) |-> IF args[i].is_vector THEN <<>> ELSE 0]

\* ------------------------------------------------------------ state
VARIABLES
    tlobjects,            \* the tuple TLParser.parse_files returned
    pc,                   \* where the run is
    idx,                  \* the next element of tlobjects the grouping loop takes
    namespace_functions,  \* the dict of functions: <<namespace, list>> in insertion order
    namespace_types,      \* the dict of types
    function_abstracts,   \* the set of results of functions
    object_abstracts,     \* the set of results of types
    pending,              \* the files generate_tlobjects has still to generate
    file,                 \* the file _generate_source is writing
    written,              \* the files _generate_source has finished
    out,                  \* per file, what its builder received
    lastlayer,
    items,                \* the items of namespace_tlobjects still to visit
    ns,                   \* the loop variable ns
    todo,                 \* the sorted definitions of ns still to visit
    cls,                  \* what a builder received from one _write_source_code
    x,                    \* the value write is called on
    stream,               \* the stream write wrote
    rd                    \* the state read left

vars == <<tlobjects, pc, idx, namespace_functions, namespace_types, function_abstracts,
          object_abstracts, pending, file, written, out, lastlayer, items, ns, todo,
          cls, x, stream, rd>>

genVars == <<idx, namespace_functions, namespace_types, function_abstracts,
             object_abstracts, pending, file, written, out, lastlayer, items, ns, todo>>
ioVars == <<cls, x, stream, rd>>

TLObject(id, name, namespace, layer, is_function, result, args) ==
    [id |-> id, name |-> name, namespace |-> namespace, layer |-> layer,
     is_function |-> is_function, result |-> result, args |-> args]

NoRead == [pos |-> 0, start |-> 0, fields |-> <<>>, len |-> 0, i |-> 0, status |-> "none"]

\* the state generate_tlobjects starts from, whatever the parser returned
Start ==
    /\ idx = 1
    /\ namespace_functions = <<>>
    /\ namespace_types = <<>>
    /\ function_abstracts = {}
    /\ object_abstracts = {}
    /\ pending = <<"functions.cpp", "types.cpp">>
    /\ file = ""
    /\ written = {}
    /\ out = [f \in Files |-> <<>>]
    /\ lastlayer = 0
    /\ items = <<>>
    /\ ns = ""
    /\ todo = <<>>
    /\ cls = <<>>
    /\ x = <<>>
    /\ stream = <<>>
    /\ rd = NoRead

TuplesOf(pool) == UNION { [1..k -> pool] : k \in 0..MaxObjects }

\* ------------------------------------------------------------ generate_tlobjects
\* dict[key].append(t) on a defaultdict(list): a new key goes last
DictAppend(d, key, t) ==
    IF \E i \in 1..Len(d) : d[i].ns = key
    THEN [i \in 1..Len(d) |-> IF d[i].ns = key
                              THEN [ns |-> key, objs |-> Append(d[i].objs, t)]
                              ELSE d[i]]
    ELSE Append(d, [ns |-> key, objs |-> <<t>>])

\* a variant that adds every result to the set of the other kind
GroupedCrossed(g, tlobject) ==
    LET t == [tlobject EXCEPT !.result = get_sanitized_result(tlobject.result)] IN
    IF t.is_function
    THEN [g EXCEPT !.nf = DictAppend(g.nf, t.namespace, t), !.oa = g.oa \cup {t.result}]
    ELSE [g EXCEPT !.nt = DictAppend(g.nt, t.namespace, t), !.fa = g.fa \cup {t.result}]

\* one iteration of "for tlobject in tlobjects": the four collections after it
Grouped(g, tlobject) ==
    LET t == [tlobject EXCEPT !.result = get_sanitized_result(tlobject.result)] IN
    IF t.is_function
    THEN [g EXCEPT !.nf = DictAppend(g.nf, t.namespace, t), !.fa = g.fa \cup {t.result}]
    ELSE [g EXCEPT !.nt = DictAppend(g.nt, t.namespace, t), !.oa = g.oa \cup {t.result}]

Collect ==
    /\ pc = "collect"
    /\ idx <= Len(tlobjects)
    /\ LET g == Grouped([nf |-> namespace_functions, nt |-> namespace_types,
                         fa |-> function_abstracts, oa |-> object_abstracts],
                        tlobjects[idx])
       IN /\ namespace_functions' = g.nf
          /\ namespace_types' = g.nt
          /\ function_abstracts' = g.fa
          /\ object_abstracts' = g.oa
    /\ idx' = idx + 1
    /\ pc' = IF idx = Len(tlobjects) THEN "main" ELSE "collect"
    /\ UNCHANGED <<tlobjects, pending, file, written, out, lastlayer, items, ns, todo>>
    /\ UNCHANGED ioVars

\* ------------------------------------------------------------ _generate_source
\* the banner, the includes and "namespace TL {"
Preamble ==
    <<Line("notice", 0), Line("include", 1), Line("include", 2), Line("include", 3),
      Line("include", 4), Blank, Open("TL", 0, 0)>>

\* "namespace Type {", one marker per abstract in sorted order, end_block
TypeBlock(abstracts) ==
    LET sorted == SortedSet(abstracts) IN
    <<Open("Type", 0, 0)>>
    \o [i \in 1..Len(sorted) |-> Line("marker", sorted[i])]
    \o <<end_block>>

\* generate_tlobjects calls _generate_source for the next file; the file is
\* opened, the preamble and the Type block are written, lastlayer = 0
BeginSource ==
    /\ pc = "main"
    /\ pending # <<>>
    /\ LET f == Head(pending)
           abstracts == IF f = "functions.cpp" THEN function_abstracts ELSE object_abstracts
       IN /\ file' = f
          /\ out' = [out EXCEPT ![f] = Preamble \o TypeBlock(abstracts)]
          /\ items' = IF f = "functions.cpp" THEN namespace_functions ELSE namespace_types
    /\ pending' = Tail(pending)
    /\ lastlayer' = 0
    /\ pc' = "namespaces"
    /\ UNCHANGED <<tlobjects, idx, namespace_functions, namespace_types, function_abstracts,
                   object_abstracts, written, ns, todo>>
    /\ UNCHANGED ioVars

\* for ns, tlobjects in namespace_tlobjects.items(): the next item
EnterNamespace ==
    /\ pc = "namespaces"
    /\ items # <<>>
    /\ ns' = Head(items).ns
    /\ todo' = SortedByName(Head(items).objs)
    /\ items' = Tail(items)
    /\ pc' = "objects"
    /\ UNCHANGED <<tlobjects, idx, namespace_functions, namespace_types, function_abstracts,
                   object_abstracts, pending, file, written, out, lastlayer>>
    /\ UNCHANGED ioVars

\* "if ns:" for a namespace name or None
Truthy(n) == n # "" /\ n # NoneNs

\* what one iteration of "for t in sorted(tlobjects, ...)" hands to the builder
ObjectTokens(t, last, n) ==
    (IF last # t.layer THEN <<Open("layer", t.layer, 0)>> ELSE <<>>)
    \o (IF Truthy(n) THEN <<Tok("open", "namespace", 0, 0, n, <<>>)>> ELSE <<>>)
    \o WriteSourceCode(t)

EmitObject ==
    /\ pc = "objects"
    /\ todo # <<>>
    /\ LET t == Head(todo) IN
          /\ out' = [out EXCEPT ![file] = @ \o ObjectTokens(t, lastlayer, ns)]
          /\ lastlayer' = t.layer
          /\ ns' = IF Truthy(ns) THEN NoneNs ELSE ns
    /\ todo' = Tail(todo)
    /\ UNCHANGED <<tlobjects, pc, idx, namespace_functions, namespace_types,
                   function_abstracts, object_abstracts, pending, file, written, items>>
    /\ UNCHANGED ioVars

\* after the inner loop: "if ns: builder.end_block()"
LeaveNamespace ==
    /\ pc = "objects"
    /\ todo = <<>>
    /\ out' = [out EXCEPT ![file] = IF Truthy(ns) THEN Append(@, end_block) ELSE @]
    /\ pc' = "namespaces"
    /\ UNCHANGED <<tlobjects, idx, namespace_functions, namespace_types, function_abstracts,
                   object_abstracts, pending, file, written, lastlayer, items, ns, todo>>
    /\ UNCHANGED ioVars

\* after the outer loop: the last builder.end_block(), and the file is closed
EndSource ==
    /\ pc = "namespaces"
    /\ items = <<>>
    /\ out' = [out EXCEPT ![file] = Append(@, end_block)]
    /\ written' = written \cup {file}
    /\ pc' = IF pending = <<>> THEN "done" ELSE "main"
    /\ UNCHANGED <<tlobjects, idx, namespace_functions, namespace_types, function_abstracts,
                   object_abstracts, pending, file, lastlayer, items, ns, todo>>
    /\ UNCHANGED ioVars

NextGenerate ==
    \/ Collect
    \/ BeginSource
    \/ EnterNamespace
    \/ EmitObject
    \/ LeaveNamespace
    \/ EndSource

\* ------------------------------------------------------------ one class, emitted and run
\* _write_source_code on one definition, as _generate_source calls it
EmitClass ==
    /\ pc = "emit"
    /\ cls' = WriteSourceCode([tlobjects[1] EXCEPT
                                  !.result = get_sanitized_result(tlobjects[1].result)])
    /\ pc' = "write"
    /\ UNCHANGED <<tlobjects, x, stream, rd>>
    /\ UNCHANGED genVars

\* the value of "static const uint32_t CONSTRUCTOR" in an emitted class
ConstructorOf(toks) == Pick(toks, "line", "CONSTRUCTOR")[1].n

\* the emitted write, called with the object x on an empty stream
RunWrite ==
    /\ pc = "write"
    /\ stream' = ExecWrite(MethodBody(cls, "write"), 1, x, ConstructorOf(cls), <<>>)
    /\ pc' = "read"
    /\ UNCHANGED <<tlobjects, cls, x, rd>>
    /\ UNCHANGED genVars

\* the emitted read, called on a blank object with the stream positioned at
\* its first item (start = 1) or behind the constructor tag (start = 2)
RunRead ==
    /\ pc = "read"
    /\ \E start \in {1, 2}, exits \in BOOLEAN :
          rd' = ExecRead(MethodBody(cls, "read"), 1,
                         [pos |-> start, start |-> start,
                          fields |-> BlankObject(tlobjects[1].args),
                          len |-> 0, i |-> 0, status |-> "returned"],
                         stream, exits)
    /\ pc' = "end"
    /\ UNCHANGED <<tlobjects, cls, x, stream>>
    /\ UNCHANGED genVars

NextClass ==
    \/ EmitClass
    \/ RunWrite
    \/ RunRead

\* ------------------------------------------------------------ specifications
\* Sequencing: definitions that differ in name, namespace, layer, kind and
\* in having a vector field
SeqPool ==
    { TLObject(1, name, namespace, layer, is_function, [wrapped |-> FALSE, family |-> 1], args) :
        name \in Names, namespace \in Namespaces, layer \in Layers, is_function \in BOOLEAN,
        args \in { <<>>, <<TLArg([is_flag |-> FALSE, flag_indicator |-> FALSE,
                                  generic_definition |-> FALSE, is_vector |-> TRUE,
                                  use_vector_id |-> TRUE], 1)>> } }

InitSeq ==
    /\ tlobjects \in TuplesOf(SeqPool)
    /\ pc = IF tlobjects = <<>> THEN "main" ELSE "collect"
    /\ Start

SpecSeq == InitSeq /\ [][NextGenerate]_vars

\* Type graph: definitions that differ in id, name, kind and result
GraphPool ==
    { TLObject(id, name, "", 1, is_function, result, <<>>) :
        id \in Ids, name \in Names, is_function \in BOOLEAN, result \in RawResults }

InitGraph ==
    /\ tlobjects \in TuplesOf(GraphPool)
    /\ pc = IF tlobjects = <<>> THEN "main" ELSE "collect"
    /\ Start

SpecGraph == InitGraph /\ [][NextGenerate]_vars

\* One class: a definition with any well-formed argument list, and a value of it
ClassPool ==
    { TLObject(2, 1, "", 1, FALSE, [wrapped |-> FALSE, family |-> 1], args) :
        args \in ArgLists }

InitClass ==
    /\ \E t \in ClassPool :
          /\ tlobjects = <<t>>
          /\ idx = 1
          /\ namespace_functions = <<>>
          /\ namespace_types = <<>>
          /\ function_abstracts = {}
          /\ object_abstracts = {}
          /\ pending = <<>>
          /\ file = ""
          /\ written = {}
          /\ out = [f \in Files |-> <<>>]
          /\ lastlayer = 0
          /\ items = <<>>
          /\ ns = ""
          /\ todo = <<>>
          /\ cls = <<>>
          /\ x \in ValuesFor(t.args)
          /\ stream = <<>>
          /\ rd = NoRead
    /\ pc = "emit"

SpecClass == InitClass /\ [][NextClass]_vars

\* ------------------------------------------------------------ properties: sequencing
\* C1 (as claimed): block balance.  In every output no end_block closes a
\* block that was not opened, and once _generate_source has finished a file
\* every block opened in it has been closed: its open-block depth is 0.
C1_BlockBalance ==
    \A f \in Files :
        /\ \A k \in 1..Len(out[f]) : DepthAt(out[f], k) >= 0
        /\ f \in written => DepthAt(out[f], Len(out[f])) = 0

\* C2 (as claimed): layer-then-namespace nesting.  A layer block is never
\* opened while a namespace block is open, so a namespace block never spans
\* a layer boundary.
C2_LayerThenNamespace ==
    \A f \in Files : \A k \in Positions(out[f], "open", "layer") :
        LET st == StackAt(out[f], k - 1) IN
        \A i \in 1..Len(st) : st[i] # "namespace"

\* ------------------------------------------------------------ properties: type graph
\* distinct definitions of the loaded tuple that carry the same id
DuplicateId ==
    \E i, j \in 1..Len(tlobjects) :
        i # j /\ tlobjects[i] # tlobjects[j] /\ tlobjects[i].id = tlobjects[j].id

\* C7 (as claimed): a duplicate constructor id is fatal.  Generation does
\* not complete when two distinct loaded definitions share an id.
C7_DuplicateIdIsFatal == pc = "done" => ~DuplicateId

\* the sanitized results of the definitions that go to file f
ResultsOf(f) ==
    { get_sanitized_result(tlobjects[i].result) :
        i \in { k \in 1..Len(tlobjects) : tlobjects[k].is_function = (f = "functions.cpp") } }

\* C10: abstract markers are exhaustive and unique.  In each output that
\* has been begun the markers are exactly the distinct sanitized results of
\* that output's definitions, in strictly ascending order (so each is
\* declared once), every marker precedes every class, and every class names
\* as its base a marker declared before it.
C10_AbstractMarkers ==
    \A f \in Files : out[f] # <<>> =>
        LET toks == out[f]
            markers == Pick(toks, "line", "marker")
        IN /\ { markers[i].n : i \in 1..Len(markers) } = ResultsOf(f)
           /\ \A i, j \in 1..Len(markers) : i < j => markers[i].n < markers[j].n
           /\ \A c \in Positions(toks, "open", "class") :
                 /\ \A m \in Positions(toks, "line", "marker") : m < c
                 /\ \E m \in Positions(toks, "line", "marker") :
                       m < c /\ toks[m].n = toks[c].n

\* C10's case: both results of two functions are declared, one of them was
\* delivered wrapped, and they were discovered in descending order
C10_Witness ==
    /\ pc = "done"
    /\ Len(tlobjects) = 2
    /\ tlobjects[1].is_function /\ tlobjects[2].is_function
    /\ tlobjects[1].result.family > tlobjects[2].result.family
    /\ tlobjects[2].result.wrapped
    /\ Len(Pick(out["functions.cpp"], "line", "marker")) = 2
    /\ Cardinality(Positions(out["functions.cpp"], "open", "class")) = 2

\* ------------------------------------------------------------ properties: one class
\* the definition the class is emitted for, and its arguments as loaded
TheArgs == tlobjects[1].args

\* an argument that becomes a field: no flag indicator, no generic placeholder
IsField(a) == ~a.flag_indicator /\ ~a.generic_definition

\* the names on the lines of one kind of the emitted class, in order
NamesOn(kind) == LET ls == Pick(cls, "line", kind) IN [i \in 1..Len(ls) |-> ls[i].n]

\* the parameter list on the emitted constructor
EmittedParams == Pick(cls, "open", "ctor")[1].p

\* a flagged argument stands before a non-flagged field in the loaded order
FlagBeforeNonFlag ==
    \E i, j \in 1..Len(TheArgs) :
        i < j /\ TheArgs[i].is_flag /\ ~TheArgs[j].is_flag /\ IsField(TheArgs[j])

ScalarOnly == \A i \in 1..Len(TheArgs) : ~TheArgs[i].is_vector

\* C5 (as claimed): the emitted fields are the arguments of the definition
\* with flag indicators and generic placeholders removed, in the
\* definition's own order.
C5_FieldsAreArgsInOrder ==
    cls # <<>> =>
        LET kept == KeepFields(TheArgs) IN
        NamesOn("field") = [i \in 1..Len(kept) |-> kept[i].name]

\* C6: defaulted parameters last.  In the emitted constructor the defaulted
\* parameters are those of the flagged arguments, and for a definition with
\* a flagged argument none of them stands before a non-defaulted one.
C6_DefaultedParamsLast ==
    (cls # <<>> /\ \E i \in 1..Len(TheArgs) : TheArgs[i].is_flag) =>
        LET p == EmittedParams IN
        /\ \A i \in 1..Len(p) : p[i].defaulted = TheArgs[p[i].name].is_flag
        /\ \A i, j \in 1..Len(p) : (i < j /\ p[i].defaulted) => p[j].defaulted

\* C6's case: the class of a definition that lists a flagged argument before
\* a non-flagged field has been emitted with both as parameters
C6_Witness ==
    /\ cls # <<>>
    /\ FlagBeforeNonFlag
    /\ \E i, j \in 1..Len(EmittedParams) :
          EmittedParams[i].defaulted /\ ~EmittedParams[j].defaulted

\* C8 (as claimed): an ordering violation is fatal.  No class is emitted
\* for a definition whose arguments reach _write_source_code with a flagged
\* argument before a non-flagged one.
C8_OrderingViolationIsFatal == FlagBeforeNonFlag => cls = <<>>

\* what write must put on the stream for one field holding v
Frame(a, v) ==
    IF a.is_vector
    THEN (IF a.use_vector_id THEN <<VECTOR_ID>> ELSE <<>>) \o <<Len(v)>> \o v
    ELSE <<v>>

\* C4: vector framing on write.  After write the stream holds the class's
\* constructor tag and then, field by field in field order, for a vector
\* field the tag 0x1cb5c415 iff use_vector_id, the element count and the
\* elements in order, and for a scalar field its value.
C4_VectorFramingOnWrite ==
    pc \in {"read", "end"} =>
        LET fs == NamesOn("field") IN
        stream = <<tlobjects[1].id>>
                 \o Flatten([i \in 1..Len(fs) |-> Frame(TheArgs[fs[i]], x[fs[i]])])

\* C4's case: a boxed and a bare vector of 3 elements each have been written
C4_Witness ==
    /\ pc = "read"
    /\ stream = <<2, VECTOR_ID, 3, 11, 12, 13, 3, 21, 22, 23>>

\* the object read left equals x in every field
FieldsRestored == \A i \in 1..Len(TheArgs) : IsField(TheArgs[i]) => rd.fields[i] = x[i]

\* C3 (as claimed): round trip for scalar-only definitions, read started
\* at the first item of the stream write wrote.
C3_RoundTripFromStart ==
    (pc = "end" /\ ScalarOnly /\ rd.start = 1) =>
        /\ FieldsRestored
        /\ rd.pos = Len(stream) + 1

\* C3 (amended): read does not take the constructor tag.  Started behind
\* the tag it restores every field of a scalar-only definition and ends
\* behind the last item write wrote; wherever it starts it takes exactly
\* one item per field.
C3_RoundTripAfterTag ==
    (pc = "end" /\ ScalarOnly) =>
        /\ rd.status = "returned"
        /\ rd.pos - rd.start = Cardinality({i \in 1..Len(TheArgs) : IsField(TheArgs[i])})
        /\ rd.start = 2 => (FieldsRestored /\ rd.pos = Len(stream) + 1)

\* C3's case: a scalar-only definition whose flagged field was listed first,
\* two fields holding different values, read started behind the tag
C3_Witness ==
    /\ pc = "end"
    /\ ScalarOnly
    /\ rd.start = 2
    /\ FlagBeforeNonFlag
    /\ \E i, j \in 1..Len(TheArgs) :
          IsField(TheArgs[i]) /\ IsField(TheArgs[j]) /\ x[i] # x[j]

\* C9 (as claimed): vector read mirrors vector write.  For a definition
\* with a vector field, read started behind the constructor tag returns,
\* has read every vector's elements into its field, and ends behind
\* everything write wrote.
C9_VectorReadMirrorsWrite ==
    (pc = "end" /\ ~ScalarOnly /\ rd.start = 2) =>
        /\ rd.status = "returned"
        /\ \A i \in 1..Len(TheArgs) : TheArgs[i].is_vector => rd.fields[i] = x[i]
        /\ rd.pos = Len(stream) + 1

====
